---- MODULE Spec2Model ----
(***************************************************************************)
(* A model of the bounded ring-buffer queue of src/queue.go.               *)
(*                                                                         *)
(* The ring buffer (buf, head, tail, count), the mutex m and the           *)
(* unbuffered channel c are modelled statement by statement.  Only one     *)
(* caller can be inside a locked section, so one program counter (pc)      *)
(* and one set of locals (elem, idx, h) describe the holder of the lock;   *)
(* any number of callers compete for the lock when it is free.  The        *)
(* channel is a rendezvous: a send completes only together with a          *)
(* receive.  The goroutines Add spawns and the Wait and Stop calls which   *)
(* are at their channel operation are counted.                             *)
(*                                                                         *)
(* Elements are opaque to the queue.  The k-th Add call passes the         *)
(* element k, so that a lost, duplicated or reordered element shows.       *)
(***************************************************************************)
EXTENDS Integers, Sequences, FiniteSets, TLC

\* ------------------------------------------------------------------ bounds
\* The callers' workloads: the capacity limit given to New, and how many
\* Add, Wait and Stop calls the callers issue during one run.
BigLimit == 40
MaxAdds == 33
MidLimit == 17
MidAdds == 19
SmallLimit == 2
SmallAdds == 3
MaxWaits == 3
MaxStops == 2

\* ------------------------------------------------------- program constants
minQueueLen == 16

\* The nil interface value: the content of a slot that holds no element.
Nil == 0

\* ------------------------------------------------------------------- state
VARIABLES
    buf,        \* q.buf: the backing slice; slot i of the code is buf[i+1]
    head,       \* q.head
    tail,       \* q.tail
    count,      \* q.count
    max_len,    \* q.max_len
    m,          \* q.m: TRUE when the mutex is held
    pc,         \* the statement the holder of the mutex is at ("idle": none)
    elem,       \* Add's parameter
    idx,        \* Get's parameter
    h,          \* PeekAndRemove's local h
    ret,        \* what the last completed buffer operation returned
    closed,     \* q.c has been closed
    sending,    \* goroutines of Add at `q.c <- 1`
    waiting,    \* Wait calls at `<-q.c`
    stopSending,\* Stop calls at `q.c <- 0`
    stopClosing,\* Stop calls at `close(q.c)`
    fault,      \* the runtime panic that ended the program ("none": running)
    quota,      \* the calls the callers issue during this run
    addCalls,   \* Add calls issued
    waitCalls,  \* Wait calls issued
    stopCalls,  \* Stop calls issued
    accepted,   \* history: the elements stored by Add, in order
    removed,    \* history: the elements removed, in order
    signals,    \* history: goroutines spawned by Add
    waitOK,     \* history: Wait calls that returned nil
    waitStopped,\* history: Wait calls that returned the "Queue Stopped" error
    snap        \* history: buf, head, tail, count as the holder of the mutex
                \* found them when it took the mutex

ring == <<buf, head, tail, count>>
lock == <<m, pc, elem, idx, h, snap>>
chan == <<closed, sending, waiting, stopSending, stopClosing>>
calls == <<quota, addCalls, waitCalls, stopCalls>>
hist == <<accepted, removed, signals, waitOK, waitStopped>>
vars == <<buf, head, tail, count, max_len, m, pc, elem, idx, h, ret,
          closed, sending, waiting, stopSending, stopClosing, fault,
          quota, addCalls, waitCalls, stopCalls,
          accepted, removed, signals, waitOK, waitStopped, snap>>

\* ----------------------------------------------------------------- helpers
\* b[i] of the code (slices are indexed from 0).
At(b, i) == b[i + 1]

\* b[lo:hi] of the code.
Slice(b, lo, hi) == SubSeq(b, lo + 1, hi)

\* make([]interface{}, n): n nil slots.
Make(n) == [k \in 1..n |-> Nil]

\* copy(dst[off:], src): overwrites min(len(dst)-off, len(src)) slots.
CopyAt(dst, off, src) ==
    [k \in 1..Len(dst) |->
        IF k > off /\ k - off <= Len(src) THEN src[k - off] ELSE dst[k]]

\* The number of elements copy(dst, src) copies.
Copied(dst, src) == IF Len(src) < Len(dst) THEN Len(src) ELSE Len(dst)

\* No caller holds the mutex: nothing was found.
NoSnap == [buf |-> <<>>, head |-> 0, tail |-> 0, count |-> 0]

NoRet == [op |-> "none", arg |-> 0, val |-> Nil, err |-> "none"]
Returned(op, arg, val, err) == [op |-> op, arg |-> arg, val |-> val, err |-> err]

\* --------------------------------------------------------- pure functions
\* Resize with the second copy left out: the part of the live region that
\* wrapped to the start of the buffer is not carried over.
ResizeNoWrap(b, hd, tl, cnt) ==
    LET newBuf == Make(cnt * 2)
        filled ==
            IF tl > hd
            THEN CopyAt(newBuf, 0, Slice(b, hd, tl))
            ELSE CopyAt(newBuf, 0, Slice(b, hd, Len(b)))
    IN  [buf |-> filled, head |-> 0, tail |-> cnt]

\* resize(): a new buffer of twice the current count, the live region copied
\* to its start.  The result is the new <<buf, head, tail>>.
Resize(b, hd, tl, cnt) ==
    LET newBuf == Make(cnt * 2)
        filled ==
            IF tl > hd
            THEN CopyAt(newBuf, 0, Slice(b, hd, tl))
            ELSE LET n == Copied(newBuf, Slice(b, hd, Len(b)))
                 IN  CopyAt(CopyAt(newBuf, 0, Slice(b, hd, Len(b))),
                            n, Slice(b, 0, tl))
    IN  [buf |-> filled, head |-> 0, tail |-> cnt]

\* Full with > for >=: one element too many is let in.
FullOffByOne(cnt, limit) == cnt > limit

\* Add's test `q.count >= q.max_len`.
Full(cnt, limit) == cnt >= limit

\* Add's test `q.count == len(q.buf)`.
GrowNeeded(cnt, b) == cnt = Len(b)

\* AdvanceTail without the wrap to slot 0.
AdvanceTailNoWrap(tl, b) == tl + 1

\* Add's `(q.tail + 1) % len(q.buf)`.
AdvanceTail(tl, b) == (tl + 1) % Len(b)

\* AdvanceHead stepping over a slot.
AdvanceHeadSkip(hd, b) == (hd + 2) % Len(b)

\* Remove's and PeekAndRemove's `(q.head + 1) % len(q.buf)`.
AdvanceHead(hd, b) == (hd + 1) % Len(b)

\* ShrinkNeeded without the test of the minimum length.
ShrinkNoMinimum(cnt, b) == cnt * 4 = Len(b)

\* ShrinkNeeded with the shrink at an eighth full instead of a quarter.
ShrinkAtEighth(cnt, b) == Len(b) > minQueueLen /\ cnt * 8 = Len(b)

\* Remove's and PeekAndRemove's test
\* `len(q.buf) > minQueueLen && q.count*4 == len(q.buf)`.
ShrinkNeeded(cnt, b) == Len(b) > minQueueLen /\ cnt * 4 = Len(b)

\* Empty with the test for a negative count only: a count of 0 passes.
EmptyNegative(cnt) == cnt < 0

\* The test `q.count <= 0` of Peek, Remove and PeekAndRemove.
Empty(cnt) == cnt <= 0

\* Get's test `i < 0 || i >= q.count`.
OutOfRange(i, cnt) == i < 0 \/ i >= cnt

\* GetIndex without the offset of head.
GetIndexNoHead(hd, i, b) == i % Len(b)

\* Get's `(q.head+i)%len(q.buf)`.
GetIndex(hd, i, b) == (hd + i) % Len(b)

\* WaitResult without the test of x: any received value is a wake-up.
WaitResultAnyValue(x, ok) == IF ok THEN "nil" ELSE "Queue Stopped"

\* Wait's result for the pair x, ok it received.
WaitResult(x, ok) == IF ok /\ x = 1 THEN "nil" ELSE "Queue Stopped"

\* -------------------------------------------------------------------- Init
\* The workloads: New's argument and the number of calls of each kind.
Loads ==
    { [max_len |-> BigLimit,   adds |-> MaxAdds,   waits |-> 0,        stops |-> 0],
      [max_len |-> MidLimit,   adds |-> MidAdds,   waits |-> 1,        stops |-> 1],
      [max_len |-> SmallLimit, adds |-> SmallAdds, waits |-> MaxWaits, stops |-> MaxStops],
      [max_len |-> 0,          adds |-> SmallAdds, waits |-> 1,        stops |-> 1],
      [max_len |-> -1,         adds |-> SmallAdds, waits |-> 0,        stops |-> 0] }

\* New(max_len), and nothing called yet.
New(load) ==
    /\ buf = Make(minQueueLen)
    /\ head = 0
    /\ tail = 0
    /\ count = 0
    /\ max_len = load.max_len
    /\ m = FALSE
    /\ pc = "idle"
    /\ elem = Nil
    /\ idx = 0
    /\ h = Nil
    /\ ret = NoRet
    /\ closed = FALSE
    /\ sending = 0
    /\ waiting = 0
    /\ stopSending = 0
    /\ stopClosing = 0
    /\ fault = "none"
    /\ quota = [adds |-> load.adds, waits |-> load.waits, stops |-> load.stops]
    /\ addCalls = 0
    /\ waitCalls = 0
    /\ stopCalls = 0
    /\ accepted = <<>>
    /\ removed = <<>>
    /\ signals = 0
    /\ waitOK = 0
    /\ waitStopped = 0
    /\ snap = NoSnap

Init == \E load \in Loads : New(load)

\* ---------------------------------------------------------------- locking
\* q.m.Lock() by a caller of operation op: the mutex is free.
Lock(first) ==
    /\ fault = "none"
    /\ ~m
    /\ m' = TRUE
    /\ pc' = first
    /\ ret' = NoRet
    /\ snap' = [buf |-> buf, head |-> head, tail |-> tail, count |-> count]

\* The deferred q.m.Unlock() on return (or on panic) of the holder.
Unlock ==
    /\ m' = FALSE
    /\ pc' = "idle"
    /\ elem' = Nil
    /\ idx' = 0
    /\ h' = Nil
    /\ snap' = NoSnap

\* A statement of the holder of the mutex.
Step(from, to) ==
    /\ fault = "none"
    /\ m
    /\ pc = from
    /\ pc' = to
    /\ UNCHANGED <<m, elem, idx, h, ret, snap>>

\* A Wait call returns what WaitResult makes of the x, ok it received.
WaitReturn(x, ok) ==
    /\ waiting' = waiting - 1
    /\ waitOK' = waitOK + (IF WaitResult(x, ok) = "nil" THEN 1 ELSE 0)
    /\ waitStopped' = waitStopped + (IF WaitResult(x, ok) = "nil" THEN 0 ELSE 1)

\* --------------------------------------------------------------------- Add
AddLock ==
    /\ addCalls < quota.adds
    /\ Lock("add_check")
    /\ elem' = addCalls + 1
    /\ addCalls' = addCalls + 1
    /\ UNCHANGED <<ring, max_len, idx, h, chan, fault, quota, waitCalls, stopCalls, hist>>

\* AddCheck with the goroutine spawned before the test for full: a rejected
\* Add dispatches a wake-up too.
AddCheckSignalsFirst ==
    /\ fault = "none" /\ m /\ pc = "add_check"
    /\ IF count >= max_len
       THEN /\ Unlock
            /\ sending' = sending + 1
            /\ signals' = signals + 1
            /\ UNCHANGED <<ring, ret>>
       ELSE /\ pc' = "add_store"
            /\ UNCHANGED <<m, elem, idx, h, ret, snap, count, sending, signals>>
            /\ IF count = Len(buf)
               THEN LET r == Resize(buf, head, tail, count)
                    IN  /\ buf' = r.buf
                        /\ head' = r.head
                        /\ tail' = r.tail
               ELSE UNCHANGED <<buf, head, tail>>
    /\ UNCHANGED <<max_len, closed, waiting, stopSending, stopClosing, fault,
                   calls, accepted, removed, waitOK, waitStopped>>

\* Lines 59-64: return when full; grow when the buffer is full.
AddCheck ==
    /\ fault = "none" /\ m /\ pc = "add_check"
    /\ IF Full(count, max_len)
       THEN /\ Unlock
            /\ UNCHANGED <<ring, ret>>
       ELSE /\ pc' = "add_store"
            /\ UNCHANGED <<m, elem, idx, h, ret, snap, count>>
            /\ IF GrowNeeded(count, buf)
               THEN LET r == Resize(buf, head, tail, count)
                    IN  /\ buf' = r.buf
                        /\ head' = r.head
                        /\ tail' = r.tail
               ELSE UNCHANGED <<buf, head, tail>>
    /\ UNCHANGED <<max_len, chan, fault, calls, hist>>

\* Line 66.
AddStore ==
    /\ Step("add_store", "add_tail")
    /\ buf' = [buf EXCEPT ![tail + 1] = elem]
    /\ UNCHANGED <<head, tail, count, max_len, chan, fault, calls, hist>>

\* Line 67.
AddTail ==
    /\ Step("add_tail", "add_count")
    /\ tail' = AdvanceTail(tail, buf)
    /\ UNCHANGED <<buf, head, count, max_len, chan, fault, calls, hist>>

\* Line 68.
AddCount ==
    /\ Step("add_count", "add_go")
    /\ count' = count + 1
    /\ accepted' = Append(accepted, elem)
    /\ UNCHANGED <<buf, head, tail, max_len, chan, fault, calls,
                   removed, signals, waitOK, waitStopped>>

\* AddGo signalling only when the queue was empty before this Add.
AddGoWhenWasEmpty ==
    /\ fault = "none" /\ m /\ pc = "add_go"
    /\ sending' = IF count = 1 THEN sending + 1 ELSE sending
    /\ signals' = IF count = 1 THEN signals + 1 ELSE signals
    /\ Unlock
    /\ UNCHANGED <<ring, max_len, ret, closed, waiting, stopSending, stopClosing,
                   fault, calls, accepted, removed, waitOK, waitStopped>>

\* AddGo with the send done by Add itself, inside the locked section: the
\* send completes when a Wait call receives it.
AddGoSendsInline ==
    /\ fault = "none" /\ m /\ pc = "add_go"
    /\ ~closed
    /\ waiting > 0
    /\ signals' = signals + 1
    /\ WaitReturn(1, TRUE)
    /\ Unlock
    /\ UNCHANGED <<ring, max_len, ret, closed, sending, stopSending, stopClosing,
                   fault, calls, accepted, removed>>

\* Lines 69-72: spawn the goroutine that sends 1, and return.
AddGo ==
    /\ fault = "none" /\ m /\ pc = "add_go"
    /\ sending' = sending + 1
    /\ signals' = signals + 1
    /\ Unlock
    /\ UNCHANGED <<ring, max_len, ret, closed, waiting, stopSending, stopClosing,
                   fault, calls, accepted, removed, waitOK, waitStopped>>

\* ------------------------------------------------------------------ Length
\* Line 34: reads q.count without taking the mutex.
Length ==
    /\ fault = "none"
    /\ ret' = Returned("Length", 0, count, "none")
    /\ UNCHANGED <<ring, max_len, lock, chan, fault, calls, hist>>

\* -------------------------------------------------------------------- Peek
PeekLock ==
    /\ Lock("peek_check")
    /\ UNCHANGED <<ring, max_len, elem, idx, h, chan, fault, calls, hist>>

\* Lines 80-84: panic when empty, else return q.buf[q.head].
PeekBody ==
    /\ fault = "none" /\ m /\ pc = "peek_check"
    /\ ret' = IF Empty(count)
              THEN Returned("Peek", 0, Nil, "EmptyQueue")
              ELSE Returned("Peek", 0, At(buf, head), "none")
    /\ Unlock
    /\ UNCHANGED <<ring, max_len, chan, fault, calls, hist>>

\* --------------------------------------------------------------------- Get
GetLock(i) ==
    /\ Lock("get_check")
    /\ idx' = i
    /\ UNCHANGED <<ring, max_len, elem, h, chan, fault, calls, hist>>

\* Lines 92-96: panic when i is out of range, else return the i-th element.
GetBody ==
    /\ fault = "none" /\ m /\ pc = "get_check"
    /\ ret' = IF OutOfRange(idx, count)
              THEN Returned("Get", idx, Nil, "IndexOutOfRange")
              ELSE Returned("Get", idx, At(buf, GetIndex(head, idx, buf)), "none")
    /\ Unlock
    /\ UNCHANGED <<ring, max_len, chan, fault, calls, hist>>

\* ------------------------------------------------------------------ Remove
RemoveLock ==
    /\ Lock("rem_check")
    /\ UNCHANGED <<ring, max_len, elem, idx, h, chan, fault, calls, hist>>

\* Lines 104-106: panic when empty (the deferred Unlock runs).
RemoveCheck ==
    /\ fault = "none" /\ m /\ pc = "rem_check"
    /\ IF Empty(count)
       THEN /\ ret' = Returned("Remove", 0, Nil, "EmptyQueue")
            /\ Unlock
       ELSE /\ pc' = "rem_clear"
            /\ UNCHANGED <<m, elem, idx, h, ret, snap>>
    /\ UNCHANGED <<ring, max_len, chan, fault, calls, hist>>

\* Line 107.  The history records the element the slot held.
RemoveClear ==
    /\ Step("rem_clear", "rem_head")
    /\ removed' = Append(removed, At(buf, head))
    /\ buf' = [buf EXCEPT ![head + 1] = Nil]
    /\ UNCHANGED <<head, tail, count, max_len, chan, fault, calls,
                   accepted, signals, waitOK, waitStopped>>

\* Line 108.
RemoveHead ==
    /\ Step("rem_head", "rem_count")
    /\ head' = AdvanceHead(head, buf)
    /\ UNCHANGED <<buf, tail, count, max_len, chan, fault, calls, hist>>

\* Line 109.
RemoveCount ==
    /\ Step("rem_count", "rem_shrink")
    /\ count' = count - 1
    /\ UNCHANGED <<buf, head, tail, max_len, chan, fault, calls, hist>>

\* Lines 110-113: shrink when a quarter full, and return.
RemoveShrink ==
    /\ fault = "none" /\ m /\ pc = "rem_shrink"
    /\ IF ShrinkNeeded(count, buf)
       THEN LET r == Resize(buf, head, tail, count)
            IN  /\ buf' = r.buf
                /\ head' = r.head
                /\ tail' = r.tail
       ELSE UNCHANGED <<buf, head, tail>>
    /\ ret' = Returned("Remove", 0, Nil, "none")
    /\ Unlock
    /\ UNCHANGED <<count, max_len, chan, fault, calls, hist>>

\* ----------------------------------------------------------- PeekAndRemove
ParLock ==
    /\ Lock("par_check")
    /\ UNCHANGED <<ring, max_len, elem, idx, h, chan, fault, calls, hist>>

\* Lines 119-121.
ParCheck ==
    /\ fault = "none" /\ m /\ pc = "par_check"
    /\ IF Empty(count)
       THEN /\ ret' = Returned("PeekAndRemove", 0, Nil, "EmptyQueue")
            /\ Unlock
       ELSE /\ pc' = "par_read"
            /\ UNCHANGED <<m, elem, idx, h, ret, snap>>
    /\ UNCHANGED <<ring, max_len, chan, fault, calls, hist>>

\* Line 122.
ParRead ==
    /\ fault = "none" /\ m /\ pc = "par_read"
    /\ h' = At(buf, head)
    /\ pc' = "par_clear"
    /\ UNCHANGED <<ring, max_len, m, elem, idx, ret, snap, chan, fault, calls, hist>>

\* Line 123.
ParClear ==
    /\ Step("par_clear", "par_head")
    /\ buf' = [buf EXCEPT ![head + 1] = Nil]
    /\ UNCHANGED <<head, tail, count, max_len, chan, fault, calls, hist>>

\* Line 124.
ParHead ==
    /\ Step("par_head", "par_count")
    /\ head' = AdvanceHead(head, buf)
    /\ UNCHANGED <<buf, tail, count, max_len, chan, fault, calls, hist>>

\* Line 125.
ParCount ==
    /\ Step("par_count", "par_shrink")
    /\ count' = count - 1
    /\ UNCHANGED <<buf, head, tail, max_len, chan, fault, calls, hist>>

\* ParShrink without the shrink of lines 126-128: only Remove gives memory
\* back.
ParShrinkNoResize ==
    /\ fault = "none" /\ m /\ pc = "par_shrink"
    /\ ret' = Returned("PeekAndRemove", 0, h, "none")
    /\ removed' = Append(removed, h)
    /\ Unlock
    /\ UNCHANGED <<ring, max_len, chan, fault, calls,
                   accepted, signals, waitOK, waitStopped>>

\* Lines 126-130: shrink when a quarter full, and return h.
ParShrink ==
    /\ fault = "none" /\ m /\ pc = "par_shrink"
    /\ IF ShrinkNeeded(count, buf)
       THEN LET r == Resize(buf, head, tail, count)
            IN  /\ buf' = r.buf
                /\ head' = r.head
                /\ tail' = r.tail
       ELSE UNCHANGED <<buf, head, tail>>
    /\ ret' = Returned("PeekAndRemove", 0, h, "none")
    /\ removed' = Append(removed, h)
    /\ Unlock
    /\ UNCHANGED <<count, max_len, chan, fault, calls,
                   accepted, signals, waitOK, waitStopped>>

\* ------------------------------------------------------------ Wait and Stop
\* A Wait call reaches `x, ok := <-q.c` (line 133).
WaitCall ==
    /\ fault = "none"
    /\ waitCalls < quota.waits
    /\ waitCalls' = waitCalls + 1
    /\ waiting' = waiting + 1
    /\ UNCHANGED <<ring, max_len, lock, ret, closed, sending, stopSending,
                   stopClosing, fault, quota, addCalls, stopCalls, hist>>

\* The rendezvous of a goroutine of Add (line 70) with a Wait call (line 133).
RecvSignal ==
    /\ fault = "none"
    /\ ~closed
    /\ sending > 0
    /\ waiting > 0
    /\ sending' = sending - 1
    /\ WaitReturn(1, TRUE)
    /\ UNCHANGED <<ring, max_len, lock, ret, closed, stopSending, stopClosing,
                   fault, calls, accepted, removed, signals>>

\* StopCall on a channel with a buffer: the send of 0 completes without a
\* receiver and Stop goes on to close.
StopCallBuffered ==
    /\ fault = "none"
    /\ stopCalls < quota.stops
    /\ stopCalls' = stopCalls + 1
    /\ stopClosing' = stopClosing + 1
    /\ UNCHANGED <<ring, max_len, lock, ret, closed, sending, waiting,
                   stopSending, fault, quota, addCalls, waitCalls, hist>>

\* A Stop call reaches `q.c <- 0` (line 141).
StopCall ==
    /\ fault = "none"
    /\ stopCalls < quota.stops
    /\ stopCalls' = stopCalls + 1
    /\ stopSending' = stopSending + 1
    /\ UNCHANGED <<ring, max_len, lock, ret, closed, sending, waiting,
                   stopClosing, fault, quota, addCalls, waitCalls, hist>>

\* The rendezvous of a Stop call (line 141) with a Wait call (line 133).
RecvStop ==
    /\ fault = "none"
    /\ ~closed
    /\ stopSending > 0
    /\ waiting > 0
    /\ stopSending' = stopSending - 1
    /\ stopClosing' = stopClosing + 1
    /\ WaitReturn(0, TRUE)
    /\ UNCHANGED <<ring, max_len, lock, ret, closed, sending,
                   fault, calls, accepted, removed, signals>>

\* close(q.c) (line 142): closing a closed channel panics.
StopClose ==
    /\ fault = "none"
    /\ stopClosing > 0
    /\ stopClosing' = stopClosing - 1
    /\ IF closed
       THEN fault' = "close of closed channel" /\ UNCHANGED closed
       ELSE closed' = TRUE /\ UNCHANGED fault
    /\ UNCHANGED <<ring, max_len, lock, ret, sending, waiting, stopSending,
                   calls, hist>>

\* A receive on the closed channel yields 0, false (line 133).
RecvClosed ==
    /\ fault = "none"
    /\ closed
    /\ waiting > 0
    /\ WaitReturn(0, FALSE)
    /\ UNCHANGED <<ring, max_len, lock, ret, closed, sending, stopSending,
                   stopClosing, fault, calls, accepted, removed, signals>>

\* A send on the closed channel (line 70 or 141) panics; the panic of a
\* goroutine ends the program.
SendClosed ==
    /\ fault = "none"
    /\ closed
    /\ sending + stopSending > 0
    /\ fault' = "send on closed channel"
    /\ UNCHANGED <<ring, max_len, lock, ret, chan, calls, hist>>

\* -------------------------------------------------------------------- Next
\* The indices the callers pass to Get: one below the range, the range, and
\* one above it.
GetArgs == -1..count

Next ==
    \/ AddLock \/ AddCheck \/ AddStore \/ AddTail \/ AddCount \/ AddGo
    \/ Length
    \/ PeekLock \/ PeekBody
    \/ (\E i \in GetArgs : GetLock(i)) \/ GetBody
    \/ RemoveLock \/ RemoveCheck \/ RemoveClear \/ RemoveHead \/ RemoveCount
    \/ RemoveShrink
    \/ ParLock \/ ParCheck \/ ParRead \/ ParClear \/ ParHead \/ ParCount
    \/ ParShrink
    \/ WaitCall \/ RecvSignal \/ RecvClosed
    \/ StopCall \/ RecvStop \/ StopClose \/ SendClosed

Spec == Init /\ [][Next]_vars

\* ------------------------------------------------------------- properties
\* s is a prefix of t.
IsPrefix(s, t) == Len(s) <= Len(t) /\ SubSeq(t, 1, Len(s)) = s

\* The logical content of a ring buffer: cnt elements read from hd, wrapping.
LiveOf(b, hd, cnt) == [k \in 1..cnt |-> At(b, (hd + k - 1) % Len(b))]

\* The elements accepted and not yet removed, oldest first.
Held == SubSeq(accepted, Len(removed) + 1, Len(accepted))

\* C1 (FIFO law): the elements removed, in the order of their removal, are
\* a prefix of the elements Add stored, in the order the Adds held the lock.
FifoLaw == IsPrefix(removed, accepted)

\* C1's case: removals by Remove and PeekAndRemove went on across a grow of
\* the buffer, and PeekAndRemove has just returned the 18th element.
FifoWitness ==
    /\ ret.op = "PeekAndRemove"
    /\ ret.val = 18
    /\ Len(removed) = 18
    /\ Len(buf) = 2 * minQueueLen

\* C2 (capacity law): with a non-negative limit, count never exceeds it, and
\* Length never returns a value above it.
CapacityLaw ==
    max_len >= 0 =>
        /\ count <= max_len
        /\ ret.op = "Length" => ret.val <= max_len

\* C2's case: the queue is at its limit, an Add was turned away, and Length
\* returns the limit.
CapacityWitness ==
    /\ max_len = SmallLimit
    /\ ret.op = "Length"
    /\ ret.val = max_len
    /\ pc = "idle"
    /\ addCalls > Len(accepted)

\* C3 (a rejected Add is a no-op): an Add that holds the lock with
\* count >= max_len changes neither the buffer, the cursors, the count nor
\* the number of wake-ups dispatched, and returns; so, whenever no Add is
\* under way, as many wake-ups were dispatched as Adds were accepted.
RejectedAddNoOp ==
    /\ [](pc = "idle" => signals = Len(accepted))
    /\ [][(pc = "add_check" /\ count >= max_len) =>
            /\ UNCHANGED <<buf, head, tail, count, signals, accepted>>
            /\ pc' \in {"add_check", "idle"}]_vars

\* C3's case: two Adds were turned away by a queue that is full at its limit,
\* with the buffer grown beyond its first length.
RejectedAddWitness ==
    /\ pc = "idle"
    /\ max_len = MidLimit
    /\ count = max_len
    /\ addCalls = signals + 2
    /\ Len(buf) > minQueueLen

\* C4 (index law): whenever Get can run, the slot it reads for each i in
\* [0, count) holds the i-th oldest element held; what a Get returned is that
\* element; and Get changes neither the buffer, the cursors nor the count.
IndexLaw ==
    /\ [](pc \in {"idle", "get_check"} =>
            /\ Len(Held) = count
            /\ \A i \in 0..(count - 1) :
                  At(buf, GetIndex(head, i, buf)) = Held[i + 1])
    /\ []((ret.op = "Get" /\ ret.err = "none") => ret.val = Held[ret.arg + 1])
    /\ [][pc = "get_check" => UNCHANGED <<buf, head, tail, count>>]_vars

\* C4's case: Get has returned an element stored past the wrap of a grown
\* buffer (head + i >= len(buf)).
IndexWitness ==
    /\ ret.op = "Get"
    /\ ret.err = "none"
    /\ Len(buf) = 2 * minQueueLen
    /\ head + ret.arg >= Len(buf)

\* C5 (resize correctness): a step that changes the length of the buffer (a
\* grow in Add, a shrink in Remove or PeekAndRemove) keeps the logical
\* content, and ends with head = 0, tail = count and len(buf) = 2*count.
ResizeCorrect ==
    [][Len(buf') # Len(buf) =>
          /\ LiveOf(buf', head', count') = LiveOf(buf, head, count)
          /\ count' = count
          /\ head' = 0
          /\ tail' = count'
          /\ Len(buf') = 2 * count']_vars

\* C5's case: the buffer grew to 32 slots and has just shrunk to 16 with its
\* live region wrapped: 33 elements were stored and 25 removed, so before
\* the shrink head was at least 25 and the 8 live slots ran past slot 31.
ResizeWitness ==
    /\ pc = "idle"
    /\ Len(buf) = minQueueLen
    /\ Len(accepted) = 33
    /\ Len(removed) = 25
    /\ head = 0
    /\ tail = 8
    /\ LiveOf(buf, head, count) = <<26, 27, 28, 29, 30, 31, 32, 33>>

\* C6 (minimum length): the buffer never has fewer than minQueueLen slots.
MinBufLen == Len(buf) >= minQueueLen

\* C6's case: the buffer grew and shrank back to minQueueLen: of 17 elements
\* stored, 9 were removed, and head is 0 again.
MinBufLenWitness ==
    /\ Len(buf) = minQueueLen
    /\ Len(accepted) = 17
    /\ Len(removed) = 9
    /\ head = 0
    /\ count = 8

\* C8 (no invented wake-ups): no more Wait calls have returned nil than Adds
\* were accepted.
NoInventedWakeup == waitOK <= Len(accepted)

\* C8's case: every wake-up was consumed by a Wait, and a further Wait is
\* blocked.
NoInventedWitness ==
    /\ waitOK >= 2
    /\ waitOK = Len(accepted)
    /\ waiting > 0
    /\ pc = "idle"

\* ----------------------------------------------------------------- fairness
\* The workloads of the runs checked for liveness: the small limits.
LiveLoads == {load \in Loads : load.max_len <= SmallLimit}

InitLive == \E load \in LiveLoads : New(load)

\* The statements of the holder of the mutex: a caller inside a locked
\* section goes on to its return.
LockedStep ==
    \/ AddCheck \/ AddStore \/ AddTail \/ AddCount \/ AddGo
    \/ PeekBody \/ GetBody
    \/ RemoveCheck \/ RemoveClear \/ RemoveHead \/ RemoveCount \/ RemoveShrink
    \/ ParCheck \/ ParRead \/ ParClear \/ ParHead \/ ParCount \/ ParShrink

\* The scheduler runs every goroutine that can take a step: a sender and a
\* receiver that are both at the channel communicate, a Stop past its send
\* closes the channel, a receive or a send on the closed channel completes.
Fairness ==
    /\ WF_vars(LockedStep)
    /\ WF_vars(RecvSignal)
    /\ WF_vars(RecvStop)
    /\ WF_vars(StopClose)
    /\ WF_vars(RecvClosed)
    /\ WF_vars(SendClosed)

SpecLive == InitLive /\ [][Next]_vars /\ Fairness

\* C7 (wake-up delivery): for every n, once n Adds have been accepted and n
\* Wait calls issued, n Wait calls eventually have returned nil, unless Stop
\* is called.
WakeupDelivery ==
    \A n \in 1..MaxWaits :
        (Len(accepted) >= n /\ waitCalls >= n) ~> (waitOK >= n \/ stopCalls > 0)

\* C7's case: two Adds were accepted and their elements removed again, Stop
\* was not called, and two Wait calls have returned nil.
WakeupDeliveryWitness ==
    /\ stopCalls = 0
    /\ Len(accepted) = 2
    /\ count = 0
    /\ waitCalls = 2
    /\ waitOK = 2

\* C9 (after Stop, Wait never succeeds): from the call of Stop on, no Wait
\* call returns nil.
StoppedNeverSucceeds == [][stopCalls > 0 => waitOK' = waitOK]_vars

\* C10 (after Stop, Wait returns): once Stop has been called, the Wait calls
\* that are blocked eventually have all returned.  Stated of the runs with
\* one Stop call: a second call of Stop is outside the claim.
StoppedWaitReturns ==
    (stopCalls = 1 /\ waiting > 0) ~> (waiting = 0 \/ stopCalls > 1)

\* ---------------------------------------------------------------------------
\* Add racing with Stop
\* ---------------------------------------------------------------------------

\* C11 (no wake-up on the closed channel): in the runs with one Stop call, no
\* goroutine of an accepted Add is at its send once the channel is closed,
\* and the program does not panic with "send on closed channel".
NoSendOnClosed ==
    stopCalls <= 1 =>
        /\ ~(closed /\ sending > 0)
        /\ fault # "send on closed channel"

\* ---------------------------------------------------------------------------
\* Add and the consumers
\* ---------------------------------------------------------------------------

\* The positions of a caller inside the locked section of Add, in order.
AddPcs == <<"add_check", "add_store", "add_tail", "add_count", "add_go">>

\* The position of pc value p in the locked section of Add.
AddRank(p) == CHOOSE k \in 1..Len(AddPcs) : AddPcs[k] = p

\* pc is inside the locked section of Add.
InAdd == \E k \in 1..Len(AddPcs) : AddPcs[k] = pc

\* The next statement of the Add call that holds the mutex.
AddStep == AddCheck \/ AddStore \/ AddTail \/ AddCount \/ AddGo

\* C12 (Add never blocks on consumers): while the program runs, the next
\* statement of an Add call that holds the mutex can always be taken,
\* whatever the Wait calls, the undelivered wake-ups and Stop have done; each
\* statement moves the call forward or ends it with the mutex released; and
\* the wake-up of an accepted Add is handed to a goroutine in the step that
\* releases the mutex, never sent while the mutex is held.
AddNeverBlocks ==
    /\ []((fault = "none" /\ InAdd) => ENABLED AddStep)
    /\ [](signals = Len(accepted) - (IF pc = "add_go" THEN 1 ELSE 0))
    /\ [][InAdd /\ pc' # pc =>
            \/ pc' = "idle" /\ ~m'
            \/ InAdd' /\ AddRank(pc') = AddRank(pc) + 1]_vars
    /\ [][sending' > sending => pc = "add_go" /\ pc' = "idle" /\ ~m']_vars

\* C12's case: an accepted Add is at its last statement while the wake-up of
\* an earlier Add is undelivered and no Wait call was ever issued.
AddNeverBlocksWitness ==
    /\ pc = "add_go"
    /\ waitCalls = 0
    /\ sending >= 1
    /\ fault = "none"

\* ---------------------------------------------------------------------------
\* Failed preconditions
\* ---------------------------------------------------------------------------

\* C13 (precondition failures do not corrupt state): Peek, Remove and
\* PeekAndRemove called with count = 0 fail with EmptyQueue, Get(i) with i < 0
\* or i >= count fails with IndexOutOfRange; the failing step leaves buf,
\* head, tail and count as they were and releases the mutex, and after a
\* failed call the mutex can be taken by the next operation.
FailedCallNoOp ==
    /\ [][(pc \in {"peek_check", "rem_check", "par_check"} /\ count = 0
             /\ pc' # pc) =>
            /\ ret'.err = "EmptyQueue"
            /\ ring' = ring
            /\ ~m' /\ pc' = "idle"]_vars
    /\ [][(pc = "get_check" /\ (idx < 0 \/ idx >= count) /\ pc' # pc) =>
            /\ ret'.err = "IndexOutOfRange"
            /\ ring' = ring
            /\ ~m' /\ pc' = "idle"]_vars
    /\ []((ret.err # "none" /\ fault = "none") =>
            ENABLED RemoveLock /\ ENABLED PeekLock /\ ENABLED ParLock)

\* C13's case: a Remove call has failed with EmptyQueue on a queue that had
\* held elements, with the head moved off slot 0, and the mutex is free.
FailedCallWitness ==
    /\ ret.op = "Remove"
    /\ ret.err = "EmptyQueue"
    /\ Len(removed) >= 1
    /\ head > 0
    /\ ~m

\* ---------------------------------------------------------------------------
\* Lock discipline
\* ---------------------------------------------------------------------------

\* C14 (lock discipline): Length reads count only while no other caller is
\* inside a locked section, as every operation on buf, head, tail and count
\* holds the mutex: no Length call returns in a step taken while the mutex
\* is held.
LengthUnderLock == [][(ret' # ret /\ ret'.op = "Length") => ~m]_vars

\* ---------------------------------------------------------------------------
\* PeekAndRemove against Peek and Remove
\* ---------------------------------------------------------------------------

\* The ring with its head element taken out: the slot cleared, head advanced,
\* count decremented, and the buffer shrunk when a quarter full.
Removed(s) ==
    LET b == [s.buf EXCEPT ![s.head + 1] = Nil]
        hd == AdvanceHead(s.head, s.buf)
        cnt == s.count - 1
    IN  IF ShrinkNeeded(cnt, b)
        THEN LET r == Resize(b, hd, s.tail, cnt)
             IN  <<r.buf, r.head, r.tail, cnt>>
        ELSE <<b, hd, s.tail, cnt>>

\* C15 (PeekAndRemove is Peek then Remove): a Peek call on the non-empty ring
\* it found returns the element at head, the oldest element held; a Remove
\* call leaves the ring it found with its head element taken out (shrink
\* included); a PeekAndRemove call returns the element Peek returns on the
\* ring it found and leaves that ring as Remove does, count one less.  So
\* after an Add of x into the empty queue both return x.
ParIsPeekThenRemove ==
    /\ [][(pc = "peek_check" /\ pc' = "idle" /\ snap.count > 0) =>
            /\ ret'.val = At(snap.buf, snap.head)
            /\ ret'.val = accepted[Len(removed) + 1]
            /\ ret'.err = "none"]_vars
    /\ [][(pc = "rem_shrink" /\ pc' = "idle") => ring' = Removed(snap)]_vars
    /\ [][(pc = "par_shrink" /\ pc' = "idle") =>
            /\ ret'.val = At(snap.buf, snap.head)
            /\ ret'.val = accepted[Len(removed) + 1]
            /\ ret'.err = "none"
            /\ ring' = Removed(snap)
            /\ count' = snap.count - 1]_vars
    /\ [](pc \in {"peek_check", "rem_check", "par_check"} => snap =
            [buf |-> buf, head |-> head, tail |-> tail, count |-> count])

\* C15's case: a PeekAndRemove call has returned the ninth of seventeen
\* elements and, at a quarter full, has shrunk the buffer of 32 slots to 16.
ParWitness ==
    /\ ret.op = "PeekAndRemove"
    /\ ret.err = "none"
    /\ ret.val = 9
    /\ Len(accepted) = minQueueLen + 1
    /\ Len(removed) = 9
    /\ Len(buf) = minQueueLen
    /\ count = 8

\* ---------------------------------------------------------------------------
\* Stop
\* ---------------------------------------------------------------------------

\* C16 (Stop is a single irrevocable transition): whatever the number of Stop
\* calls, the channel once closed stays closed, no Stop call is at its send
\* on the closed channel, and no Stop call closes the closed channel.
StopOnce ==
    /\ [][closed => closed']_vars
    /\ [](~(closed /\ stopSending > 0))
    /\ [](fault # "close of closed channel")

\* ---------------------------------------------------------------------------
\* The ring buffer between operations
\* ---------------------------------------------------------------------------

\* C17 (ring-buffer invariant): in every state in which no caller holds the
\* mutex, head and tail are slots of the buffer, count is between 0 and the
\* length of the buffer, tail = (head + count) mod len(buf), the count slots
\* from head hold the elements accepted and not removed, oldest first, and
\* every other slot is empty.
RingInvariant ==
    ~m =>
        /\ 0 <= head /\ head < Len(buf)
        /\ 0 <= tail /\ tail < Len(buf)
        /\ 0 <= count /\ count <= Len(buf)
        /\ tail = (head + count) % Len(buf)
        /\ LiveOf(buf, head, count) = Held
        /\ \A k \in count..(Len(buf) - 1) : At(buf, (head + k) % Len(buf)) = Nil

\* C17's case: between operations the live region wraps past the end of the
\* buffer (tail is behind head) and the buffer is more than half full.
RingWitness ==
    /\ ~m
    /\ pc = "idle"
    /\ tail < head
    /\ 2 * count > Len(buf)

\* ---------------------------------------------------------------------------
\* Consumer discipline
\* ---------------------------------------------------------------------------

\* C18 (consumer discipline): a removal that has a successful Wait of its
\* own, fewer removals having been made than Wait calls have returned nil,
\* does not find the queue empty; and every wake-up dispatched belongs to an
\* element already stored and counted.
DisciplinedRemoval ==
    /\ (pc \in {"rem_check", "par_check"} /\ Len(removed) < waitOK) => count > 0
    /\ signals <= Len(accepted)
    /\ waitOK <= signals

\* C18's case: two Wait calls have returned nil, one element was removed,
\* and a second removal is at its test for empty with one element left.
DisciplinedWitness ==
    /\ pc = "par_check"
    /\ waitOK = 2
    /\ Len(removed) = 1
    /\ count = 1

\* C19 (Stop is a rendezvous): a Stop call is past its send, at close or
\* returned, only after a Wait call has received its 0 and returned "Queue
\* Stopped": while the channel is open the Stop calls past their send are as
\* many as the Wait calls that returned "Queue Stopped", and the channel is
\* closed only after one did.  While every Stop call is at its send and no
\* Wait call is ready to receive, no Stop call can move on; and if no Wait
\* call was ever issued, every Stop call is at its send and the channel is
\* open.
StopRendezvous ==
    /\ ~closed => (stopCalls = stopSending + stopClosing /\ stopClosing = waitStopped)
    /\ stopCalls - stopSending <= waitStopped
    /\ closed => waitStopped >= 1
    /\ (stopSending = stopCalls /\ waiting = 0 /\ ~closed) =>
            ~ENABLED (RecvStop \/ StopClose)
    /\ waitCalls = 0 => (stopSending = stopCalls /\ ~closed)

\* C19's case: the one Stop call has closed the channel after the one Wait
\* call received its 0 and returned "Queue Stopped".
StopRendezvousWitness ==
    /\ stopCalls = 1
    /\ waitCalls = 1
    /\ waitStopped = 1
    /\ closed
    /\ fault = "none"

\* ---------------------------------------------------------------------------
\* The shrink threshold
\* ---------------------------------------------------------------------------

\* C20 (shrink threshold never skipped): whenever no Add, Remove or
\* PeekAndRemove call is in progress, a buffer longer than minQueueLen is
\* more than a quarter full.
ShrinkNeverSkipped ==
    pc = "idle" => (Len(buf) > minQueueLen => 4 * count > Len(buf))

\* C20's case: a Remove call has returned leaving 17 elements in a buffer
\* grown to 64 slots, one element above the quarter at which it shrinks.
ShrinkWitness ==
    /\ pc = "idle"
    /\ ret.op = "Remove"
    /\ Len(buf) = 4 * minQueueLen
    /\ count = minQueueLen + 1
====
